---------------------------- MODULE Spec2Model ----------------------------
(***************************************************************************)
(* Background task orchestration of the travel agent web backend:          *)
(*   - TaskRepository (task_repository.py): the SQLite table "tasks";      *)
(*   - TaskManager (webapp.py): submit, the _runner closure executed by a  *)
(*     ThreadPoolExecutor(max_workers=4), and get.                         *)
(* Every repository call is one SQL statement in its own connection, so    *)
(* it is one atomic step; each may fail with an sqlite3 error.             *)
(*                                                                         *)
(* Spec      the TaskManager with NumTasks submit calls of any kind;       *)
(* FairSpec  Spec with worker threads that take their steps;               *)
(* PoolSpec  NumPoolTasks submit calls, more than the pool has threads;    *)
(* StoreSpec the TaskRepository and the status route called directly;      *)
(* InputSpec Spec with submit calls whose input json.dumps cannot encode;   *)
(* ProcessorSpec  the offer pipeline of the job (processor.py), called on   *)
(*           lists of at most MaxOffers raw offers.                         *)
(***************************************************************************)
EXTENDS Integers, Sequences, FiniteSets, TLC

(* Number of submit calls in a run. *)
NumTasks == 2

(* Number of submit calls in a run against the pool (more than max_workers). *)
NumPoolTasks == 5

(* Longest list of raw offers handed to prepare_offers. *)
MaxOffers == 2

(* ThreadPoolExecutor(max_workers=4) *)
max_workers == 4

TaskIds == 1..NumTasks
PoolTaskIds == 1..NumPoolTasks

-----------------------------------------------------------------------------
(* Python values *)

None == [t |-> "None"]
PyStr(s) == [t |-> "str", s |-> s]
PyInt(n) == [t |-> "int", n |-> n]
(* a dict is its set of items *)
Dict(items) == [t |-> "dict", items |-> items]
Item(k, v) == [key |-> k, val |-> v]
(* a value the json encoder has no encoding for *)
DateTime == [t |-> "datetime"]
(* an object with a to_dict() method returning d (AgentResult, DummyResult) *)
Obj(d) == [t |-> "object", to_dict |-> d]

(* SQL NULL, and the exception values the conversions signal *)
SqlNull == [t |-> "NULL"]
TypeError == [t |-> "TypeError"]

-----------------------------------------------------------------------------
(* json.dumps / json.loads.  A JSON text is modelled by its syntax tree.   *)

JsonScalarTypes == {"None", "str", "int"}

(* json.dumps coerces int keys to their decimal string *)
json_key(k) == IF k.t = "int" THEN ToString(k.n) ELSE k.s

json_serializable(v) ==
    \/ v.t \in JsonScalarTypes
    \/ /\ v.t = "dict"
       /\ \A m \in v.items : m.key.t \in {"str", "int"} /\ m.val.t \in JsonScalarTypes

json_dumps(v) ==
    IF ~json_serializable(v) THEN TypeError
    ELSE IF v.t = "dict"
         THEN [j |-> "object",
               members |-> {[name |-> json_key(m.key), val |-> m.val] : m \in v.items}]
         ELSE [j |-> "scalar", val |-> v]

json_loads(text) ==
    IF text.j = "object"
    THEN Dict({Item(PyStr(m.name), m.val) : m \in text.members})
    ELSE text.val

(* truth value of a TEXT column read from a row: NULL and '' are falsy; a  *)
(* JSON text is never empty                                                *)
truthy(col) == col # SqlNull


-----------------------------------------------------------------------------
(* TaskRepository: the table "tasks", id TEXT PRIMARY KEY *)

NoRow == [t |-> "NoRow"]

(* datetime.isoformat / datetime.fromisoformat of a naive utc timestamp *)
isoformat(dt) == [iso |-> dt.ticks]
fromisoformat(text) == [ticks |-> text.iso]

(* the in-memory dataclass *)
TaskRecord(id, status, created_at, config_payload, result, error, metadata) ==
    [id |-> id, status |-> status, created_at |-> created_at,
     config_payload |-> config_payload, result |-> result, error |-> error,
     metadata |-> metadata]

(* `metadata or {}`: an empty dict and None are falsy *)
or_empty_dict(v) == IF v = None \/ v = Dict({}) THEN Dict({}) ELSE v

(* the tuple create_task binds to the INSERT; TypeError when a json.dumps  *)
(* raises                                                                  *)
create_task_payload(record) ==
    LET config == json_dumps(record.config_payload)
        result == IF record.result # None THEN json_dumps(record.result) ELSE SqlNull
        metadata == json_dumps(or_empty_dict(record.metadata))
    IN  IF TypeError \in {config, result, metadata} THEN TypeError
        ELSE [status |-> record.status, created_at |-> isoformat(record.created_at),
              config |-> config, result |-> result,
              error |-> IF record.error = None THEN SqlNull ELSE record.error,
              metadata |-> metadata]

(* mutant: the INSERT is never committed *)
create_task_lost(db, record) == db

(* mutant: INSERT OR REPLACE *)
create_task_replaces(db, record) ==
    IF create_task_payload(record) = TypeError THEN db
    ELSE [db EXCEPT ![record.id] = create_task_payload(record)]

(* INSERT INTO tasks ...: the table after the call.  Nothing is inserted   *)
(* when json.dumps raises, or when the id is taken (id TEXT PRIMARY KEY:   *)
(* the statement fails and the connection rolls back)                      *)
create_task(db, record) ==
    IF create_task_payload(record) = TypeError \/ db[record.id] # NoRow THEN db
    ELSE [db EXCEPT ![record.id] = create_task_payload(record)]

(* what create_task raises *)
IntegrityError == [type |-> "sqlite3.IntegrityError",
                   msg |-> "UNIQUE constraint failed: tasks.id",
                   raised_in |-> "create_task"]
create_task_raises(db, record) ==
    IF create_task_payload(record) = TypeError
    THEN [type |-> "TypeError", msg |-> "Object of type datetime is not JSON serializable",
          raised_in |-> "create_task"]
    ELSE IF db[record.id] # NoRow THEN IntegrityError
    ELSE [type |-> "none"]

(* the number of rows WHERE id = ? selects *)
rows_with_id(db, task_id) == IF db[task_id] = NoRow THEN 0 ELSE 1

(* mutant: the statement resets the outcome columns as well *)
update_status_resets_outcome(db, task_id, status) ==
    IF db[task_id] = NoRow THEN db
    ELSE [db EXCEPT ![task_id].status = status,
                    ![task_id].result = SqlNull,
                    ![task_id].error = SqlNull]

(* UPDATE tasks SET status = ? WHERE id = ?  (no row matches: no change)   *)
update_status(db, task_id, status) ==
    IF db[task_id] = NoRow THEN db
    ELSE [db EXCEPT ![task_id].status = status]

(* mutant: the finishing statement sets the status and forgets the result *)
update_result_status_only(db, task_id, result) ==
    IF db[task_id] = NoRow THEN db
    ELSE [db EXCEPT ![task_id].status = "finished",
                    ![task_id].error = SqlNull]

(* UPDATE tasks SET status = 'finished', result = ?, error = NULL WHERE id = ? *)
update_result(db, task_id, result) ==
    IF db[task_id] = NoRow THEN db
    ELSE [db EXCEPT ![task_id].status = "finished",
                    ![task_id].result = json_dumps(result),
                    ![task_id].error = SqlNull]

(* mutant: the failing statement leaves the result column alone *)
update_error_keeps_result(db, task_id, message) ==
    IF db[task_id] = NoRow THEN db
    ELSE [db EXCEPT ![task_id].status = "failed",
                    ![task_id].error = PyStr(message)]

(* mutant: the failing statement sets the status and forgets the message *)
update_error_drops_message(db, task_id, message) ==
    IF db[task_id] = NoRow THEN db
    ELSE [db EXCEPT ![task_id].status = "failed",
                    ![task_id].result = SqlNull]

(* mutant: the status is set by a statement of its own, committed first *)
update_error_status_first(db, task_id, message) ==
    IF db[task_id] = NoRow THEN db
    ELSE [db EXCEPT ![task_id].status = "failed"]

(* mutant: the failing statement writes the row anew, with an empty input  *)
update_error_resets_config(db, task_id, message) ==
    IF db[task_id] = NoRow THEN db
    ELSE [db EXCEPT ![task_id].status = "failed",
                    ![task_id].error = PyStr(message),
                    ![task_id].result = SqlNull,
                    ![task_id].config = json_dumps(Dict({}))]

(* UPDATE tasks SET status = 'failed', error = ?, result = NULL WHERE id = ? *)
update_error(db, task_id, message) ==
    IF db[task_id] = NoRow THEN db
    ELSE [db EXCEPT ![task_id].status = "failed",
                    ![task_id].error = PyStr(message),
                    ![task_id].result = SqlNull]

(* mutant: no `if not row`; row["id"] of None raises *)
get_without_row_check(db, task_id) ==
    LET row == db[task_id]
    IN  IF row = NoRow THEN TypeError
        ELSE TaskRecord(task_id, row.status, fromisoformat(row.created_at),
                        json_loads(row.config),
                        IF truthy(row.result) THEN json_loads(row.result) ELSE None,
                        IF row.error = SqlNull THEN None ELSE row.error,
                        IF truthy(row.metadata) THEN json_loads(row.metadata)
                        ELSE Dict({}))

(* SELECT * FROM tasks WHERE id = ?, rebuilt as a TaskRecord; None if no row *)
get(db, task_id) ==
    LET row == db[task_id]
    IN  IF row = NoRow THEN None
        ELSE TaskRecord(task_id, row.status, fromisoformat(row.created_at),
                        json_loads(row.config),
                        IF truthy(row.result) THEN json_loads(row.result) ELSE None,
                        IF row.error = SqlNull THEN None ELSE row.error,
                        IF truthy(row.metadata) THEN json_loads(row.metadata)
                        ELSE Dict({}))

-----------------------------------------------------------------------------
(* Inputs *)

(* the argument lists submit is called with: no metadata and no           *)
(* completion (run_from_form, the test), metadata and the _notify          *)
(* completion (run_from_bot)                                               *)
SubmitCalls ==
    { [config_data |-> Dict({Item(PyStr("foo"), PyStr("bar"))}),
       metadata |-> None, completion |-> FALSE],
      [config_data |-> Dict({Item(PyStr("origin"), PyStr("VIE"))}),
       metadata |-> Dict({Item(PyStr("source"), PyStr("telegram")),
                          Item(PyStr("chat_id"), PyInt(7))}),
       completion |-> TRUE] }

(* what run_fn may return: objects with to_dict() (string keys, an integer *)
(* key, a value json cannot encode) and a plain mapping                    *)
JobReturns ==
    { Obj(Dict({Item(PyStr("report"), PyStr("Report from worker"))})),
      Obj(Dict({Item(PyInt(1), PyInt(42))})),
      Obj(Dict({Item(PyStr("created"), DateTime)})),
      Dict({Item(PyStr("score"), PyInt(42))}) }

(* str(exc) of what run_fn may raise *)
JobRaises == {"boom"}

(* str(exc) of what a completion callback may raise *)
CompletionRaises == {"notify failed"}

(* exceptions: the type, str(exc), and the call that raised it *)
Exc(type, msg, raised_in) == [type |-> type, msg |-> msg, raised_in |-> raised_in]
NoExc == [type |-> "none"]
StoreFault(call) == Exc("sqlite3.OperationalError", "database is locked", call)
AttributeError == Exc("AttributeError", "'dict' object has no attribute 'to_dict'",
                      "_update_result")
JsonTypeError == Exc("TypeError", "Object of type datetime is not JSON serializable",
                     "_update_result")

(* what a call of run_fn did *)
NotCalled == [kind |-> "none", value |-> None]
Returned(v) == [kind |-> "returned", value |-> v]
Raised(m) == [kind |-> "raised", value |-> PyStr(m)]

(* what a call made from outside did: the method, its argument list, the   *)
(* number of rows the table had for the id when the call was made (which   *)
(* the repository never looks at), the exception raised, the value         *)
(* returned                                                                *)
NoReply == [call |-> "none"]
Reply(call, args, rows, raised, returned) ==
    [call |-> call, args |-> args, rows |-> rows, raised |-> raised,
     returned |-> returned]

-----------------------------------------------------------------------------
(* State *)

VARIABLES
    tasks,        \* the table: task id -> row, or NoRow
    record,       \* submit's local TaskRecord, per submit call (None before)
    completion,   \* submit's completion argument, per submit call
    callerPc,     \* position of the thread calling submit
    work_queue,   \* the executor's queue of _runner work items
    pc,           \* position of each _runner
    outcome,      \* what run_fn did: not called yet, returned v, raised str(exc)
    exc,          \* the exception bound in _runner's except clause
    escaped,      \* the exception that left _runner (kept by its Future)
    calls,        \* the records completion was called with, in order
    reply         \* what the last call made from outside the TaskManager (a
                  \* repository method, the status route) returned or raised

vars == <<tasks, record, completion, callerPc, work_queue, pc, outcome, exc,
          escaped, calls, reply>>

(* an empty table, a TaskManager with an idle pool, and the submit calls   *)
(* that are going to draw the ids                                          *)
InitFor(ids) ==
    /\ tasks = [t \in ids |-> NoRow]
    /\ record = [t \in ids |-> None]
    /\ completion = [t \in ids |-> FALSE]
    /\ callerPc = [t \in ids |-> "idle"]
    /\ work_queue = <<>>
    /\ pc = [t \in ids |-> "none"]
    /\ outcome = [t \in ids |-> NotCalled]
    /\ exc = [t \in ids |-> NoExc]
    /\ escaped = [t \in ids |-> NoExc]
    /\ calls = [t \in ids |-> <<>>]
    /\ reply = NoReply

Init == InitFor(TaskIds)

(* uuid4().hex: an id no earlier call drew *)
uuid4(t) == \A u \in DOMAIN callerPc : u < t => callerPc[u] # "idle"

(* datetime.utcnow() *)
utcnow(t) == [ticks |-> t]

(* mutant: a worker thread that an exception left _runner with is lost *)
busy_with_lost_workers ==
    {t \in DOMAIN pc : \/ pc[t] \in {"L61", "L63", "L64", "L65", "L71", "L72"}
                       \/ pc[t] = "done" /\ escaped[t] # NoExc}

(* _runner work items a worker thread is executing *)
busy == {t \in DOMAIN pc : pc[t] \in {"L61", "L63", "L64", "L65", "L71", "L72"}}

-----------------------------------------------------------------------------
(* TaskManager.submit *)

(* mutant: submit returns the record of an equal task that is queued or    *)
(* running instead of creating one                                         *)
submit_create_deduplicates(t, call) ==
    /\ callerPc[t] = "idle"
    /\ uuid4(t)
    /\ LET r == TaskRecord(t, "queued", utcnow(t), call.config_data, None, None,
                           or_empty_dict(call.metadata))
           equal == {u \in DOMAIN tasks :
                        /\ tasks[u] # NoRow
                        /\ tasks[u].status \in {"queued", "running"}
                        /\ record[u].config_payload = r.config_payload
                        /\ record[u].metadata = r.metadata}
       IN  /\ completion' = [completion EXCEPT ![t] = call.completion]
           /\ \/ /\ equal # {}
                 /\ \E u \in equal : record' = [record EXCEPT ![t] = record[u]]
                 /\ callerPc' = [callerPc EXCEPT ![t] = "returned"]
                 /\ UNCHANGED tasks
              \/ /\ equal = {}
                 /\ create_task_payload(r) # TypeError
                 /\ tasks[t] = NoRow
                 /\ record' = [record EXCEPT ![t] = r]
                 /\ tasks' = create_task(tasks, r)
                 /\ callerPc' = [callerPc EXCEPT ![t] = "L78"]
              \/ /\ record' = [record EXCEPT ![t] = r]
                 /\ callerPc' = [callerPc EXCEPT ![t] = "raised"]
                 /\ UNCHANGED tasks
    /\ UNCHANGED <<work_queue, pc, outcome, exc, escaped, calls, reply>>

(* mutant: submit catches what create_task raises and goes on *)
submit_create_swallows_fault(t, call) ==
    /\ callerPc[t] = "idle"
    /\ uuid4(t)
    /\ LET r == TaskRecord(t, "queued", utcnow(t), call.config_data, None, None,
                           or_empty_dict(call.metadata))
       IN  /\ record' = [record EXCEPT ![t] = r]
           /\ completion' = [completion EXCEPT ![t] = call.completion]
           /\ \/ /\ create_task_payload(r) # TypeError
                 /\ tasks[t] = NoRow
                 /\ tasks' = create_task(tasks, r)
                 /\ callerPc' = [callerPc EXCEPT ![t] = "L78"]
              \/ /\ callerPc' = [callerPc EXCEPT ![t] = "L78"]
                 /\ UNCHANGED tasks
    /\ UNCHANGED <<work_queue, pc, outcome, exc, escaped, calls, reply>>

(* lines 51-58 and 77: draw the id, build the record, create_task *)
submit_create(t, call) ==
    /\ callerPc[t] = "idle"
    /\ uuid4(t)
    /\ LET r == TaskRecord(t, "queued", utcnow(t), call.config_data, None, None,
                           or_empty_dict(call.metadata))
       IN  /\ record' = [record EXCEPT ![t] = r]
           /\ completion' = [completion EXCEPT ![t] = call.completion]
           /\ \/ /\ create_task_payload(r) # TypeError
                 /\ tasks[t] = NoRow
                 /\ tasks' = create_task(tasks, r)
                 /\ callerPc' = [callerPc EXCEPT ![t] = "L78"]
              \* create_task raises: json.dumps (TypeError), the primary key
              \* (IntegrityError) or any other sqlite3 error
              \/ /\ callerPc' = [callerPc EXCEPT ![t] = "raised"]
                 /\ UNCHANGED tasks
    /\ UNCHANGED <<work_queue, pc, outcome, exc, escaped, calls, reply>>

(* mutant: submit marks the task running when it hands it to the pool *)
submit_handoff_marks_running(t) ==
    /\ callerPc[t] = "L78"
    /\ work_queue' = Append(work_queue, t)
    /\ pc' = [pc EXCEPT ![t] = "queued"]
    /\ callerPc' = [callerPc EXCEPT ![t] = "returned"]
    /\ tasks' = update_status(tasks, t, "running")
    /\ UNCHANGED <<record, completion, outcome, exc, escaped, calls, reply>>

(* mutant: executor.submit waits until a worker thread is free *)
submit_handoff_waits_for_worker(t) ==
    /\ callerPc[t] = "L78"
    /\ Cardinality({u \in DOMAIN pc : pc[u] \in {"L61", "L63", "L64", "L65", "L71", "L72"}})
          < max_workers
    /\ work_queue' = Append(work_queue, t)
    /\ pc' = [pc EXCEPT ![t] = "queued"]
    /\ callerPc' = [callerPc EXCEPT ![t] = "returned"]
    /\ UNCHANGED <<tasks, record, completion, outcome, exc, escaped, calls,
                   reply>>

(* lines 78-79: self.executor.submit(_runner); return record *)
submit_handoff(t) ==
    /\ callerPc[t] = "L78"
    /\ work_queue' = Append(work_queue, t)
    /\ pc' = [pc EXCEPT ![t] = "queued"]
    /\ callerPc' = [callerPc EXCEPT ![t] = "returned"]
    /\ UNCHANGED <<tasks, record, completion, outcome, exc, escaped, calls,
                   reply>>

(* TaskManager.get *)
TaskManager_get(task_id) == get(tasks, task_id)

(* Two TaskManagers over one store (test_task_persistence_across_managers): *)
(* a TaskRepository knows the path of its database, a TaskManager its      *)
(* repository; the table "tasks" of the model is the one of database_path. *)
database_path == "tasks.db"
TaskRepository(database) == [database |-> database]
TaskManager(repo) == [repository |-> repo]
repository == TaskRepository(database_path)
manager_a == TaskManager(repository)

(* mutant: the second manager is given a repository over a file of its own *)
manager_b_own_database == TaskManager(TaskRepository("other.db"))

manager_b == TaskManager(repository)

(* _connect: sqlite3.connect(self.database), the table "tasks" of that     *)
(* file; _ensure_schema leaves an empty table in a file that had none      *)
connect(repo) ==
    IF repo.database = database_path THEN tasks
    ELSE [t \in DOMAIN tasks |-> NoRow]

(* manager.get(task_id), that is manager.repository.get(task_id) *)
manager_get(manager, task_id) == get(connect(manager.repository), task_id)

-----------------------------------------------------------------------------
(* The worker pool and _runner *)

(* mutant: the executor starts a thread for every work item *)
worker_take_unbounded(t) ==
    /\ work_queue # <<>>
    /\ Head(work_queue) = t
    /\ work_queue' = Tail(work_queue)
    /\ pc' = [pc EXCEPT ![t] = "L61"]
    /\ UNCHANGED <<tasks, record, completion, callerPc, outcome, exc,
                   escaped, calls, reply>>

(* mutant: the executor's queue is a stack, an idle worker thread takes the *)
(* newest work item                                                        *)
worker_take_newest(t) ==
    /\ work_queue # <<>>
    /\ work_queue[Len(work_queue)] = t
    /\ Cardinality(busy) < max_workers
    /\ work_queue' = SubSeq(work_queue, 1, Len(work_queue) - 1)
    /\ pc' = [pc EXCEPT ![t] = "L61"]
    /\ UNCHANGED <<tasks, record, completion, callerPc, outcome, exc,
                   escaped, calls, reply>>

(* an idle worker thread takes the oldest work item *)
worker_take(t) ==
    /\ work_queue # <<>>
    /\ Head(work_queue) = t
    /\ Cardinality(busy) < max_workers
    /\ work_queue' = Tail(work_queue)
    /\ pc' = [pc EXCEPT ![t] = "L61"]
    /\ UNCHANGED <<tasks, record, completion, callerPc, outcome, exc,
                   escaped, calls, reply>>

(* leaving _runner: normally, or with an exception nothing in it catches *)
runner_exit(t, e) ==
    /\ pc' = [pc EXCEPT ![t] = "done"]
    /\ exc' = [exc EXCEPT ![t] = NoExc]
    /\ escaped' = [escaped EXCEPT ![t] = e]

(* entering the except clause of line 69 *)
runner_except(t, e) ==
    /\ pc' = [pc EXCEPT ![t] = "L71"]
    /\ exc' = [exc EXCEPT ![t] = e]
    /\ UNCHANGED escaped

(* mutant: the first write is made inside the try block *)
runner_update_status_inside_try(t) ==
    /\ pc[t] = "L61"
    /\ \/ /\ tasks' = update_status(tasks, t, "running")
          /\ pc' = [pc EXCEPT ![t] = "L63"]
          /\ UNCHANGED <<exc, escaped>>
       \/ /\ runner_except(t, StoreFault("_update_status"))
          /\ UNCHANGED tasks
    /\ UNCHANGED <<record, completion, callerPc, work_queue, outcome, calls,
                   reply>>

(* line 61: self._update_status(task_id, "running"), outside the try *)
runner_update_status(t) ==
    /\ pc[t] = "L61"
    /\ \/ /\ tasks' = update_status(tasks, t, "running")
          /\ pc' = [pc EXCEPT ![t] = "L63"]
          /\ UNCHANGED <<exc, escaped>>
       \/ /\ runner_exit(t, StoreFault("_update_status"))
          /\ UNCHANGED tasks
    /\ UNCHANGED <<record, completion, callerPc, work_queue, outcome, calls,
                   reply>>

(* line 63: result = run_fn() *)
runner_run_fn(t) ==
    /\ pc[t] = "L63"
    /\ \/ \E v \in JobReturns :
             /\ outcome' = [outcome EXCEPT ![t] = Returned(v)]
             /\ pc' = [pc EXCEPT ![t] = "L64"]
             /\ UNCHANGED <<exc, escaped>>
       \/ \E m \in JobRaises :
             /\ outcome' = [outcome EXCEPT ![t] = Raised(m)]
             /\ runner_except(t, Exc("Exception", m, "run_fn"))
    /\ UNCHANGED <<tasks, record, completion, callerPc, work_queue, calls,
                   reply>>

(* line 64: self._update_result(task_id, result), that is                  *)
(* repository.update_result(task_id, result.to_dict())                     *)
runner_update_result(t) ==
    /\ pc[t] = "L64"
    /\ LET result == outcome[t].value
       IN  IF result.t # "object"
           THEN runner_except(t, AttributeError) /\ UNCHANGED tasks
           ELSE IF json_dumps(result.to_dict) = TypeError
           THEN runner_except(t, JsonTypeError) /\ UNCHANGED tasks
           ELSE \/ /\ tasks' = update_result(tasks, t, result.to_dict)
                   /\ pc' = [pc EXCEPT ![t] = "L65"]
                   /\ UNCHANGED <<exc, escaped>>
                \/ /\ runner_except(t, StoreFault("_update_result"))
                   /\ UNCHANGED tasks
    /\ UNCHANGED <<record, completion, callerPc, work_queue, outcome, calls,
                   reply>>

(* mutant: the callback is given the record submit built *)
runner_completion_passes_record(t) ==
    /\ pc[t] = "L65"
    /\ IF ~completion[t]
       THEN runner_exit(t, NoExc) /\ UNCHANGED calls
       ELSE /\ calls' = [calls EXCEPT ![t] = Append(@, record[t])]
            /\ \/ runner_exit(t, NoExc)
               \/ \E m \in CompletionRaises :
                     runner_except(t, Exc("Exception", m, "completion"))
    /\ UNCHANGED <<tasks, record, completion, callerPc, work_queue, outcome,
                   reply>>

(* lines 65-68: if completion: current = self.get(task_id);                *)
(*              if current: completion(current)                            *)
runner_completion(t) ==
    /\ pc[t] = "L65"
    /\ IF ~completion[t]
       THEN runner_exit(t, NoExc) /\ UNCHANGED calls
       ELSE \/ runner_except(t, StoreFault("get")) /\ UNCHANGED calls
            \/ LET current == TaskManager_get(t)
               IN  IF current = None
                   THEN runner_exit(t, NoExc) /\ UNCHANGED calls
                   ELSE /\ calls' = [calls EXCEPT ![t] = Append(@, current)]
                        /\ \/ runner_exit(t, NoExc)
                           \/ \E m \in CompletionRaises :
                                 runner_except(t, Exc("Exception", m, "completion"))
    /\ UNCHANGED <<tasks, record, completion, callerPc, work_queue, outcome,
                   reply>>

(* mutant: the except clause logs the fault and writes nothing *)
runner_update_error_logs_only(t) ==
    /\ pc[t] = "L71"
    /\ runner_exit(t, NoExc)
    /\ UNCHANGED <<tasks, record, completion, callerPc, work_queue, outcome,
                   calls, reply>>

(* mutant: a job that raised is run again *)
runner_update_error_retries(t) ==
    /\ pc[t] = "L71"
    /\ \/ /\ exc[t] \in {Exc("Exception", m, "run_fn") : m \in JobRaises}
          /\ pc' = [pc EXCEPT ![t] = "L63"]
          /\ exc' = [exc EXCEPT ![t] = NoExc]
          /\ UNCHANGED <<tasks, escaped>>
       \/ /\ tasks' = update_error(tasks, t, exc[t].msg)
          /\ pc' = [pc EXCEPT ![t] = "L72"]
          /\ UNCHANGED <<exc, escaped>>
       \/ /\ runner_exit(t, StoreFault("_update_error"))
          /\ UNCHANGED tasks
    /\ UNCHANGED <<record, completion, callerPc, work_queue, outcome, calls,
                   reply>>

(* lines 70-71: self._update_error(task_id, str(exc)) *)
runner_update_error(t) ==
    /\ pc[t] = "L71"
    /\ \/ /\ tasks' = update_error(tasks, t, exc[t].msg)
          /\ pc' = [pc EXCEPT ![t] = "L72"]
          /\ UNCHANGED <<exc, escaped>>
       \/ /\ runner_exit(t, StoreFault("_update_error"))
          /\ UNCHANGED tasks
    /\ UNCHANGED <<record, completion, callerPc, work_queue, outcome, calls,
                   reply>>

(* lines 72-75: the same completion block, inside the except clause *)
runner_except_completion(t) ==
    /\ pc[t] = "L72"
    /\ IF ~completion[t]
       THEN runner_exit(t, NoExc) /\ UNCHANGED calls
       ELSE \/ runner_exit(t, StoreFault("get")) /\ UNCHANGED calls
            \/ LET current == TaskManager_get(t)
               IN  IF current = None
                   THEN runner_exit(t, NoExc) /\ UNCHANGED calls
                   ELSE /\ calls' = [calls EXCEPT ![t] = Append(@, current)]
                        /\ \/ runner_exit(t, NoExc)
                           \/ \E m \in CompletionRaises :
                                 runner_exit(t, Exc("Exception", m, "completion"))
    /\ UNCHANGED <<tasks, record, completion, callerPc, work_queue, outcome,
                   reply>>

-----------------------------------------------------------------------------

Next ==
    \E t \in TaskIds :
        \/ \E call \in SubmitCalls : submit_create(t, call)
        \/ submit_handoff(t)
        \/ worker_take(t)
        \/ runner_update_status(t)
        \/ runner_run_fn(t)
        \/ runner_update_result(t)
        \/ runner_completion(t)
        \/ runner_update_error(t)
        \/ runner_except_completion(t)

Spec == Init /\ [][Next]_vars

(* a worker thread standing at one of the two writes of the outcome takes  *)
(* that step; run_fn and a completion callback may block for ever          *)
Fairness ==
    \A t \in TaskIds :
        /\ WF_vars(runner_update_result(t))
        /\ WF_vars(runner_update_error(t))

FairSpec == Spec /\ Fairness

-----------------------------------------------------------------------------
(* More submit calls than the pool has worker threads: one client calls   *)
(* submit in a loop, the first time as run_from_bot does (metadata and the *)
(* _notify completion) and then as run_from_form does (no metadata, no     *)
(* completion), with jobs that take their time and then fail.  Worker      *)
(* threads interleave freely and every store call may fail, as in Spec;    *)
(* jobs that return are the matter of Spec.                                *)

PoolSubmitCall ==
    [config_data |-> Dict({Item(PyStr("foo"), PyStr("bar"))}),
     metadata |-> None, completion |-> FALSE]

PoolBotSubmitCall ==
    [config_data |-> Dict({Item(PyStr("origin"), PyStr("VIE"))}),
     metadata |-> Dict({Item(PyStr("source"), PyStr("telegram")),
                        Item(PyStr("chat_id"), PyInt(7))}),
     completion |-> TRUE]

PoolSubmitCallOf(t) == IF t = 1 THEN PoolBotSubmitCall ELSE PoolSubmitCall

PoolOutcomes == {Raised(m) : m \in JobRaises}

(* the client is inside no other submit call *)
client_free == \A u \in DOMAIN callerPc : callerPc[u] # "L78"

PoolInit == InitFor(PoolTaskIds)

PoolNext ==
    \E t \in PoolTaskIds :
        \/ client_free /\ submit_create(t, PoolSubmitCallOf(t))
        \/ submit_handoff(t)
        \/ worker_take(t)
        \/ runner_update_status(t)
        \/ runner_run_fn(t) /\ outcome'[t] \in PoolOutcomes
        \/ runner_update_error(t)
        \/ runner_except_completion(t)

PoolSpec == PoolInit /\ [][PoolNext]_vars

-----------------------------------------------------------------------------
(* The repository and the status route called from outside, on a database  *)
(* that answers: each call is made with any id, whether the table has a    *)
(* row for it or not.  The TaskManager submits nothing meanwhile.          *)

(* records a caller may hand to create_task: two inputs for each id, one   *)
(* without metadata and one with the metadata of run_from_bot              *)
StoreRecords ==
    { TaskRecord(t, "queued", utcnow(t), Dict({Item(PyStr("foo"), PyStr(c))}),
                 None, None,
                 IF c = "bar" THEN Dict({})
                 ELSE Dict({Item(PyStr("source"), PyStr("telegram")),
                            Item(PyStr("chat_id"), PyInt(7))}))
        : t \in TaskIds, c \in {"bar", "baz"} }

(* the status _update_status passes *)
StoreStatuses == {"running"}

(* results a caller may hand to update_result *)
StoreResults ==
    { Dict({Item(PyStr("report"), PyStr("Report from worker"))}),
      Dict({Item(PyStr("created"), DateTime)}) }

(* TaskRecord.to_dict *)
TaskRecord_to_dict(r) ==
    [id |-> r.id, status |-> r.status, created_at |-> isoformat(r.created_at),
     config |-> r.config_payload, error |-> r.error, metadata |-> r.metadata,
     result |-> r.result]

(* the response of the route /api/status/<task_id> *)
task_status_response(task_id) ==
    LET task == TaskManager_get(task_id)
    IN  IF task = None
        THEN [status_code |-> 404, json |-> [error |-> "unknown task"]]
        ELSE [status_code |-> 200, json |-> TaskRecord_to_dict(task)]

manager_untouched ==
    UNCHANGED <<record, completion, callerPc, work_queue, pc, outcome, exc,
                escaped, calls>>

TaskRepository_create_task(r) ==
    /\ tasks' = create_task(tasks, r)
    /\ reply' = Reply("create_task", <<r>>, rows_with_id(tasks, r.id),
                      create_task_raises(tasks, r), None)
    /\ manager_untouched

TaskRepository_update_status(task_id, status) ==
    /\ tasks' = update_status(tasks, task_id, status)
    /\ reply' = Reply("update_status", <<task_id, status>>,
                      rows_with_id(tasks, task_id), NoExc, None)
    /\ manager_untouched

TaskRepository_update_result(task_id, result) ==
    /\ IF json_dumps(result) = TypeError
       THEN /\ UNCHANGED tasks
            /\ reply' = Reply("update_result", <<task_id, result>>,
                              rows_with_id(tasks, task_id), JsonTypeError, None)
       ELSE /\ tasks' = update_result(tasks, task_id, result)
            /\ reply' = Reply("update_result", <<task_id, result>>,
                              rows_with_id(tasks, task_id), NoExc, None)
    /\ manager_untouched

TaskRepository_update_error(task_id, message) ==
    /\ tasks' = update_error(tasks, task_id, message)
    /\ reply' = Reply("update_error", <<task_id, message>>,
                      rows_with_id(tasks, task_id), NoExc, None)
    /\ manager_untouched

TaskRepository_get(task_id) ==
    /\ reply' = Reply("get", <<task_id>>, rows_with_id(tasks, task_id), NoExc,
                      get(tasks, task_id))
    /\ UNCHANGED tasks
    /\ manager_untouched

(* webapp.py 125-130 *)
task_status(task_id) ==
    /\ reply' = Reply("task_status", <<task_id>>, rows_with_id(tasks, task_id),
                      NoExc, task_status_response(task_id))
    /\ UNCHANGED tasks
    /\ manager_untouched

StoreNext ==
    \/ \E r \in StoreRecords : TaskRepository_create_task(r)
    \/ \E task_id \in TaskIds :
          \/ \E status \in StoreStatuses : TaskRepository_update_status(task_id, status)
          \/ \E result \in StoreResults : TaskRepository_update_result(task_id, result)
          \/ \E message \in JobRaises : TaskRepository_update_error(task_id, message)
          \/ TaskRepository_get(task_id)
          \/ task_status(task_id)

StoreSpec == Init /\ [][StoreNext]_vars

-----------------------------------------------------------------------------
(* Submit calls of any kind, those included whose config_data or metadata  *)
(* holds a value json.dumps has no encoding for (a datetime).              *)

MalformedSubmitCalls ==
    { [config_data |-> Dict({Item(PyStr("foo"), PyStr("bar"))}),
       metadata |-> Dict({Item(PyStr("received"), DateTime)}),
       completion |-> TRUE],
      [config_data |-> Dict({Item(PyStr("departure"), DateTime)}),
       metadata |-> None, completion |-> FALSE] }

InputNext ==
    \E t \in TaskIds :
        \/ \E call \in SubmitCalls \cup MalformedSubmitCalls : submit_create(t, call)
        \/ submit_handoff(t)
        \/ worker_take(t)
        \/ runner_update_status(t)
        \/ runner_run_fn(t)
        \/ runner_update_result(t)
        \/ runner_completion(t)
        \/ runner_update_error(t)
        \/ runner_except_completion(t)

InputSpec == Init /\ [][InputNext]_vars

-----------------------------------------------------------------------------
(* The offer pipeline (agent_core/processor.py).  A DataFrame is the       *)
(* sequence of its rows; prices are whole euros.                           *)

(* a float, float("nan"), float("inf") *)
PyFloat(x) == [t |-> "float", x |-> x]
NaN == [t |-> "nan"]
Inf == [t |-> "inf"]

RawOffer(provider, title, price, url, metadata) ==
    [provider |-> provider, title |-> title, price |-> price, url |-> url,
     metadata |-> metadata]

AgentConfig(destinations, budget, min_star_rating, min_recommendation_score) ==
    [destinations |-> destinations, budget |-> budget,
     min_star_rating |-> min_star_rating,
     min_recommendation_score |-> min_recommendation_score]

ProcessedOffer(provider, destination, price, url, nights, board, star_rating, recommendation_score) ==
    [provider |-> provider, destination |-> destination, price |-> price,
     url |-> url, nights |-> nights, board |-> board,
     star_rating |-> star_rating, recommendation_score |-> recommendation_score]

(* Series.fillna(value): None and NaN are the missing values *)
fillna(x, value) == IF x = None \/ x = NaN THEN value ELSE x

(* x <= y for floats, x possibly inf *)
float_le(x, y) == IF x = Inf THEN FALSE ELSE x.x <= y.x

(* df[mask]: the rows whose mask is True, in their order *)
RECURSIVE rows_from(_, _, _)
rows_from(df, mask, i) ==
    IF i > Len(df) THEN <<>>
    ELSE (IF mask[i] THEN <<df[i]>> ELSE <<>>) \o rows_from(df, mask, i + 1)

boolean_index(df, mask) == rows_from(df, mask, 1)

empty(df) == Len(df) = 0

offers_to_dataframe(offers, config) ==
    [i \in 1..Len(offers) |->
        LET offer == offers[i]
        IN  [provider |-> offer.provider,
             title |-> offer.title,
             destination |-> config.destinations[1],
             price |-> IF offer.price # None THEN offer.price ELSE NaN,
             url |-> offer.url,
             nights |-> 7,
             board |-> "Unbekannt",
             star_rating |-> offer.metadata.star_rating,
             recommendation_score |-> offer.metadata.recommendation_score]]

(* df.drop_duplicates(subset=["provider", "title"]): the first row of each *)
deduplicate_offers(df) ==
    IF empty(df) THEN df
    ELSE boolean_index(df,
            [i \in 1..Len(df) |->
                \A j \in 1..(i - 1) :
                    <<df[j].provider, df[j].title>> # <<df[i].provider, df[i].title>>])

filter_by_budget(df, config) ==
    IF config.budget = None \/ empty(df) THEN df
    ELSE boolean_index(df,
            [i \in 1..Len(df) |-> float_le(fillna(df[i].price, Inf), config.budget)])

filter_by_star_rating(df, config) ==
    IF config.min_star_rating = None \/ empty(df) THEN df
    ELSE boolean_index(df,
            [i \in 1..Len(df) |-> float_le(config.min_star_rating, fillna(df[i].star_rating, PyFloat(0)))])

filter_by_recommendation(df, config) ==
    IF config.min_recommendation_score = None \/ empty(df) THEN df
    ELSE boolean_index(df,
            [i \in 1..Len(df) |->
                float_le(config.min_recommendation_score,
                         fillna(df[i].recommendation_score, PyFloat(0)))])

(* df.dropna(subset=["price"]) *)
dropna_price(df) == boolean_index(df, [i \in 1..Len(df) |-> df[i].price # NaN])

prepare_offers(offers, config) ==
    LET df1 == offers_to_dataframe(offers, config)
        df2 == deduplicate_offers(df1)
        df3 == filter_by_budget(df2, config)
        df4 == filter_by_star_rating(df3, config)
        df5 == filter_by_recommendation(df4, config)
        df == IF ~empty(df5) THEN dropna_price(df5) ELSE df5
    IN  [i \in 1..Len(df) |->
            LET row == df[i]
            IN  ProcessedOffer(row.provider, row.destination, row.price, row.url,
                               row.nights, row.board,
                               fillna(row.star_rating, None),
                               fillna(row.recommendation_score, None))]

RECURSIVE sum(_)
sum(prices) == IF prices = <<>> THEN 0 ELSE Head(prices).x + sum(Tail(prices))

min(prices) == CHOOSE x \in {prices[i] : i \in 1..Len(prices)} :
                  \A i \in 1..Len(prices) : float_le(x, prices[i])

(* the float total / count *)
Quotient(total, count) == [t |-> "float", dividend |-> total, divisor |-> count]

summarise_offers(offers) ==
    LET valid == boolean_index(offers,
                    [i \in 1..Len(offers) |->
                        offers[i].price # None /\ offers[i].price # NaN])
        valid_prices == [i \in 1..Len(valid) |-> valid[i].price]
    IN  IF empty(valid_prices)
        THEN [count |-> 0, average_price |-> PyFloat(0), min_price |-> PyFloat(0)]
        ELSE [count |-> Len(valid_prices),
              average_price |-> Quotient(sum(valid_prices), Len(valid_prices)),
              min_price |-> min(valid_prices)]

(* the raw offers of the tests: with and without price, below and above    *)
(* the budget, with and without star rating; one title and url a provider  *)
RawOffers ==
    { RawOffer(provider, "Angebot", price, "https://example.com/" \o provider,
               [star_rating |-> stars, recommendation_score |-> None])
        : provider \in {"NoPrice", "Valid"},
          price \in {None, PyFloat(450), PyFloat(1500)},
          stars \in {None, PyFloat(5)} }

OfferLists == UNION {[1..n -> RawOffers] : n \in 0..MaxOffers}

AgentConfigs ==
    { AgentConfig(<<"Berlin">>, budget, min_star_rating, None)
        : budget \in {None, PyFloat(500)}, min_star_rating \in {None, PyFloat(4)} }

(* workflow.py: offers = prepare_offers(raw_offers, config) *)
call_prepare_offers(offers, config) ==
    /\ reply' = Reply("prepare_offers", <<offers, config>>, Len(offers), NoExc,
                      prepare_offers(offers, config))
    /\ UNCHANGED tasks
    /\ manager_untouched

(* workflow.py: summary = summarise_offers(offers) *)
call_summarise_offers ==
    /\ reply.call = "prepare_offers"
    /\ reply' = Reply("summarise_offers", <<reply.returned>>, Len(reply.returned),
                      NoExc, summarise_offers(reply.returned))
    /\ UNCHANGED tasks
    /\ manager_untouched

ProcessorNext ==
    \/ \E offers \in OfferLists, config \in AgentConfigs :
          call_prepare_offers(offers, config)
    \/ call_summarise_offers

ProcessorSpec == Init /\ [][ProcessorNext]_vars

-----------------------------------------------------------------------------
(* Vocabulary of the properties *)

Terminal == {"finished", "failed"}

created(t) == tasks[t] # NoRow

(* what get(id) returns, for a task that exists *)
stored(t) == TaskManager_get(t)

is_terminal(t) == created(t) /\ stored(t).status \in Terminal

(* status, result and error of a stored record *)
state_of(r) == <<r.status, r.result, r.error>>

handling_store_fault(t) == exc[t].type = "sqlite3.OperationalError"

json_round_trip(v) == json_loads(json_dumps(v))

(* the ids whose record says running *)
running_records == {t \in DOMAIN tasks : created(t) /\ tasks[t].status = "running"}

-----------------------------------------------------------------------------
(* C1: once a record is finished or failed, no later step changes its      *)
(* status, result or error.  Stated in the form most favourable to the     *)
(* code: a step that recovers from a store fault is not counted, so what   *)
(* is left is a callback that raises after the job returned normally.      *)
C1_TerminalIsFinal ==
    [][\A t \in TaskIds :
          (is_terminal(t) /\ ~handling_store_fault(t))
              => state_of(get(tasks', t)) = state_of(stored(t))]_vars

(* C2: a supplied completion callback is invoked exactly once, never zero  *)
(* times, never twice, and only with the terminal status already written.  *)
(* Runs in which a store call of this _runner failed are left out of the   *)
(* "never zero" part.                                                      *)
C2_CompletionExactlyOnce ==
    \A t \in TaskIds :
        completion[t] =>
            /\ Len(calls[t]) <= 1
            /\ \A i \in 1..Len(calls[t]) : calls[t][i].status \in Terminal
            /\ (pc[t] = "done" /\ is_terminal(t)
                  /\ escaped[t].type # "sqlite3.OperationalError")
                  => Len(calls[t]) = 1

(* C3: a fault raised by the completion callback causes no further store   *)
(* write: the record the callback was given (the terminal record re-read   *)
(* from the store) is what the store holds from then on.                   *)
C3_CallbackFaultWritesNothing ==
    \A t \in TaskIds :
        calls[t] # <<>> => state_of(stored(t)) = state_of(calls[t][1])

(* C4: for every stored record, status is finished exactly when result is *)
(* non-null and error is null, and failed exactly when error is non-null   *)
(* and result is null (queued and running records have both null).         *)
C4_StatusMatchesResultAndError ==
    \A t \in TaskIds :
        created(t) =>
            LET r == stored(t)
            IN  /\ r.status = "finished" <=> (r.result # None /\ r.error = None)
                /\ r.status = "failed" <=> (r.error # None /\ r.result = None)

(* a record that was finished and then written failed, beside a finished one *)
C4_Witness ==
    \E t, u \in TaskIds :
        /\ created(t) /\ stored(t).status = "failed" /\ Len(calls[t]) = 2
        /\ created(u) /\ stored(u).status = "finished"

(* C5: once submit has returned the record of task i, get(i) never reports *)
(* the task as unknown; the creation write is complete before the job is   *)
(* handed to the pool.                                                     *)
C5_KnownAfterSubmit ==
    \A t \in TaskIds :
        (callerPc[t] = "returned" \/ pc[t] # "none") => TaskManager_get(t) # None

C5_Witness ==
    \E t \in TaskIds :
        /\ callerPc[t] = "returned" /\ pc[t] = "done"
        /\ TaskManager_get(t) # None /\ TaskManager_get(t).status = "finished"

(* C6 as stated: a get(id) by the caller that submit has just returned to  *)
(* yields status queued, wherever the workers are.                         *)
C6_QueuedRightAfterSubmit ==
    \A t \in TaskIds :
        callerPc[t] = "returned" => stored(t).status = "queued"

(* C6 amended: the record submit returns has status queued, and a get(id)  *)
(* behind it yields queued for as long as the _runner of the task has not  *)
(* executed its first write, and a known record in every case.             *)
C6_QueuedUntilRunnerStarts ==
    \A t \in TaskIds :
        callerPc[t] = "returned" =>
            /\ record[t].status = "queued"
            /\ created(t)
            /\ pc[t] \in {"queued", "L61"} => stored(t).status = "queued"

(* submit has returned and the store already says running *)
C6_Witness ==
    \E t \in TaskIds :
        /\ callerPc[t] = "returned" /\ record[t].status = "queued"
        /\ stored(t).status = "running"

(* C7 as stated: under fair scheduling every task whose job function has   *)
(* returned or raised is eventually finished or failed.                    *)
C7_EventuallyTerminal ==
    \A t \in TaskIds : (outcome[t].kind # "none") ~> is_terminal(t)

(* C7 amended: ... is eventually finished or failed, unless update_error   *)
(* itself fails with a store fault, which leaves _runner.                  *)
C7_EventuallyTerminalOrStoreFault ==
    \A t \in TaskIds :
        (outcome[t].kind # "none")
            ~> (is_terminal(t) \/ escaped[t] = StoreFault("_update_error"))

C7_Witness ==
    \E t, u \in TaskIds :
        /\ outcome[t].kind = "raised" /\ is_terminal(t)
        /\ outcome[u].kind = "returned" /\ is_terminal(u)

(* C8: every status change follows queued -> running -> finished | failed, *)
(* and run_fn is only called with the record already written running.  As  *)
(* in C1, a step that recovers from a store fault is not counted.          *)
C8_StatusMachine ==
    [][\A t \in TaskIds :
          /\ (created(t) /\ ~handling_store_fault(t)) =>
                \/ get(tasks', t).status = stored(t).status
                \/ <<stored(t).status, get(tasks', t).status>> \in
                      {<<"queued", "running">>, <<"running", "finished">>,
                       <<"running", "failed">>}
          /\ pc[t] = "L63" => stored(t).status = "running"]_vars

(* C9 as stated: a job that raised with message M ends failed, error M,    *)
(* result null, and the fault does not reach the caller of submit.         *)
C9_JobFaultEndsFailed ==
    \A t \in TaskIds :
        /\ (pc[t] = "done" /\ outcome[t].kind = "raised") =>
              state_of(stored(t)) = <<"failed", None, outcome[t].value>>
        /\ callerPc[t] = "raised" => pc[t] = "none"

(* C9 amended: ... ends failed, error M, result null, unless update_error  *)
(* fails with a store fault: the record then stays running with both null. *)
C9_JobFaultEndsFailedOrStoreFault ==
    \A t \in TaskIds :
        /\ (pc[t] = "done" /\ outcome[t].kind = "raised") =>
              IF escaped[t] = StoreFault("_update_error")
              THEN state_of(stored(t)) = <<"running", None, None>>
              ELSE state_of(stored(t)) = <<"failed", None, outcome[t].value>>
        /\ callerPc[t] = "raised" => (pc[t] = "none" /\ outcome[t].kind = "none")

C9_Witness ==
    \E t \in TaskIds :
        /\ pc[t] = "done" /\ outcome[t] = Raised("boom")
        /\ callerPc[t] = "returned"
        /\ state_of(stored(t)) = <<"failed", None, PyStr("boom")>>

(* C10 as stated: a serializable value R that a job returns, such as the   *)
(* plain mapping {"score": 42}, ends as status finished, result R, error   *)
(* null.                                                                   *)
C10_ReturnedValueStoredVerbatim ==
    \A t \in TaskIds :
        (pc[t] = "done" /\ outcome[t].kind = "returned"
           /\ json_serializable(outcome[t].value)) =>
            state_of(stored(t)) = <<"finished", outcome[t].value, None>>

(* C10 amended: for a returned object R whose to_dict() is serializable,   *)
(* update_result leaves status finished, result = to_dict() of R after a   *)
(* JSON round trip, error null; a task without completion callback ends so *)
(* unless update_result failed with a store fault.  A value without        *)
(* to_dict() is never stored as a result.                                  *)
C10_ToDictStoredThroughJson ==
    \A t \in TaskIds :
        LET R == outcome[t].value
            finished == <<"finished", json_round_trip(R.to_dict), None>>
            state == state_of(stored(t))
        IN  /\ pc[t] = "L65" => state = finished
            /\ (pc[t] = "done" /\ outcome[t].kind = "returned" /\ ~completion[t]
                  /\ R.t = "object" /\ json_serializable(R.to_dict)) =>
                  \/ state = finished
                  \/ state = <<"failed", None, PyStr(StoreFault("_update_result").msg)>>
                  \/ /\ state = <<"running", None, None>>
                     /\ escaped[t] = StoreFault("_update_error")
            /\ (outcome[t].kind = "returned" /\ R.t # "object") =>
                  stored(t).status # "finished"

(* a finished record whose result differs from what to_dict() returned *)
C10_Witness ==
    \E t \in TaskIds :
        /\ pc[t] = "done" /\ outcome[t].kind = "returned"
        /\ outcome[t].value.t = "object"
        /\ stored(t).status = "finished"
        /\ stored(t).result # outcome[t].value.to_dict

(* C11 as stated: among the tasks submitted through one TaskManager, at    *)
(* most max_workers records have status running, in every state.           *)
C11_AtMostFourRunning == Cardinality(running_records) <= max_workers

(* C11 amended: at most max_workers _runner executions are in progress, so *)
(* at most max_workers records are running with their job under way; every *)
(* other running record belongs to a _runner that update_error left with a *)
(* store fault, and holds no worker thread.                                *)
C11_AtMostFourRunnersAtWork ==
    /\ Cardinality(busy) <= max_workers
    /\ Cardinality({t \in running_records : pc[t] # "done"}) <= max_workers
    /\ \A t \in running_records :
          pc[t] = "done" => escaped[t] = StoreFault("_update_error")

(* the pool is saturated: max_workers jobs under way, another task waiting *)
C11_Witness ==
    /\ Cardinality({t \in running_records : pc[t] = "L63"}) = max_workers
    /\ \E t \in PoolTaskIds : pc[t] = "queued" /\ tasks[t].status = "queued"

C13_CallbackGetsStoredTerminalRecord ==
    [][\A t \in TaskIds :
          calls'[t] # calls[t] =>
              LET current == calls'[t][Len(calls'[t])]
              IN  /\ calls'[t] = Append(calls[t], current)
                  /\ current = TaskManager_get(t)
                  /\ current = get(tasks', t)
                  /\ current # record[t]
                  /\ current.status \in Terminal]_vars

(* a callback called from the try block with a finished record, another    *)
(* called from the except clause with a failed one                         *)
C13_Witness ==
    \E t, u \in TaskIds :
        /\ Len(calls[t]) = 1 /\ calls[t][1].status = "finished"
        /\ calls[t][1].result # None /\ record[t].status = "queued"
        /\ Len(calls[u]) = 1 /\ calls[u][1].status = "failed"
        /\ outcome[u].kind = "raised" /\ calls[u][1].error = outcome[u].value

(* C14: update_status, update_result and update_error called with an id    *)
(* the table has no row for each report a failure to the caller: they      *)
(* raise, or return something else than None.                              *)
C14_UpdateOfUnknownIdFails ==
    (reply.call \in {"update_status", "update_result", "update_error"}
       /\ reply.rows = 0)
        => (reply.raised # NoExc \/ reply.returned # None)

(* C15: get(id) for an id that was never created returns None and raises   *)
(* nothing, and the status route answers 404 "unknown task", whatever rows *)
(* other ids have; None is returned for no id that has a row.              *)
C15_GetOfUnknownIdReturnsNone ==
    /\ reply.call = "get" =>
          /\ reply.raised = NoExc
          /\ reply.rows = 0 <=> reply.returned = None
    /\ reply.call = "task_status" =>
          /\ reply.raised = NoExc
          /\ reply.rows = 0 <=>
                reply.returned = [status_code |-> 404, json |-> [error |-> "unknown task"]]

(* get of an unknown id answered while the other id has a running row *)
C15_Witness ==
    /\ reply.call = "get" /\ reply.rows = 0 /\ reply.returned = None
    /\ \E u \in TaskIds : created(u) /\ tasks[u].status = "running"
                          /\ u # reply.args[1]

(* C16: create_task with an id the table has a row for raises, and the     *)
(* failed call leaves the table as it was: the row of that id keeps every  *)
(* column and no row is added.                                             *)
C16_DuplicateCreateChangesNothing ==
    [][(reply'.call = "create_task" /\ reply'.rows = 1) =>
          /\ reply'.raised = IntegrityError
          /\ tasks' = tasks]_vars

(* a second create_task for an id whose row is finished, with another      *)
(* input: it raised and the row is the finished one with the first input   *)
C16_Witness ==
    /\ reply.call = "create_task" /\ reply.rows = 1
    /\ reply.raised = IntegrityError
    /\ LET r == reply.args[1]
       IN  /\ stored(r.id).status = "finished"
           /\ stored(r.id).config_payload # r.config_payload

(* C17: update_result and update_error each take effect as one step: no    *)
(* get, at any moment of any run of the TaskManager, returns a record with *)
(* status finished and no result, status failed and no error, or status    *)
(* queued or running together with a result or an error.                   *)
C17_NoHalfWrittenRecord ==
    \A t \in TaskIds :
        created(t) =>
            LET r == manager_get(manager_b, t)
            IN  /\ ~(r.status = "finished" /\ r.result = None)
                /\ ~(r.status = "failed" /\ r.error = None)
                /\ r.status \in {"queued", "running"} =>
                      (r.result = None /\ r.error = None)

(* one record read right after update_result, one right after update_error *)
C17_Witness ==
    \E t, u \in TaskIds :
        /\ pc[t] = "L65" /\ stored(t).status = "finished" /\ stored(t).result # None
        /\ pc[u] = "L72" /\ stored(u).status = "failed" /\ stored(u).error # None

(* C18: once the finishing write of a task (update_result after run_fn     *)
(* returned, update_error after run_fn raised) has failed with a store     *)
(* fault, no further write is made for the task: its record is the running *)
(* one, from then on.                                                      *)
C18_FailedFinishingWriteLeavesRunning ==
    \A t \in TaskIds :
        \/ exc[t] = StoreFault("_update_result")
        \/ (escaped[t] = StoreFault("_update_error") /\ outcome[t].kind = "raised")
        => state_of(stored(t)) = <<"running", None, None>>

(* C19: after its creation a row is written only by steps of the one       *)
(* _runner execution of its task: the thread calling submit writes the     *)
(* queued row and nothing else, no step of another task's _runner changes  *)
(* the row, and a _runner is executed once.  (get is a SELECT.)            *)
C19_OnlyOwnRunnerWrites ==
    [][\A t \in TaskIds :
          /\ tasks'[t] # tasks[t] =>
                \/ /\ ~created(t) /\ pc[t] = "none"
                   /\ callerPc[t] = "idle" /\ callerPc'[t] = "L78"
                   /\ get(tasks', t) = record'[t]
                   /\ record'[t].status = "queued"
                \/ /\ created(t) /\ callerPc' = callerPc
                   /\ pc[t] \in {"L61", "L64", "L71"} /\ pc'[t] # pc[t]
                   /\ \A u \in TaskIds \ {t} : pc'[u] = pc[u] /\ tasks'[u] = tasks[u]
          /\ (pc'[t] = "L61" /\ pc[t] # "L61") => pc[t] = "queued"
          /\ pc[t] = "done" => pc'[t] = "done"]_vars

(* both rows written by their own _runner, one of them still at work *)
C19_Witness ==
    \E t, u \in TaskIds :
        /\ pc[t] = "done" /\ stored(t).status = "failed"
        /\ pc[u] = "L64" /\ stored(u).status = "running"

(* C20: submit returns after create_task without waiting for any job: with *)
(* the creation written, the hand-over to the pool and the return can      *)
(* always be taken, whatever the worker threads are doing and however many *)
(* work items wait, and what is returned is the queued record.             *)
C20_SubmitNeverWaits ==
    \A t \in PoolTaskIds :
        /\ callerPc[t] = "L78" => ENABLED submit_handoff(t)
        /\ callerPc[t] = "returned" => record[t].status = "queued"
        /\ callerPc[t] \in {"L78", "returned"} => created(t)

(* every worker thread is inside a job that has not returned, one task     *)
(* waits already, and yet another submit has returned its queued record    *)
C20_Witness ==
    \E t \in PoolTaskIds :
        /\ Cardinality({u \in PoolTaskIds : pc[u] = "L63"}) = max_workers
        /\ callerPc[t] = "returned" /\ record[t].status = "queued"
        /\ pc[t] = "queued" /\ Len(work_queue) = NumPoolTasks - max_workers
        /\ work_queue[Len(work_queue)] = t

(* C21: work items are taken in the order they were handed to the pool: no *)
(* worker thread starts a _runner while the _runner of a task handed over  *)
(* earlier still waits in the queue.  The one client of PoolSpec hands the *)
(* tasks over in the order of their ids.                                   *)
C21_WaitingTasksStartInHandoffOrder ==
    [][\A t \in PoolTaskIds :
          (pc[t] = "queued" /\ pc'[t] # "queued") =>
              /\ pc'[t] = "L61"
              /\ \A u \in PoolTaskIds : (u < t) => pc[u] # "queued"]_vars

(* the pool at its limit with a task waiting; of two tasks taken in their   *)
(* order, the later has made its first write while the earlier has made    *)
(* none                                                                    *)
C21_Witness ==
    \E t, u, w \in PoolTaskIds :
        /\ u < t /\ t < w
        /\ pc[u] = "L61" /\ tasks[u].status = "queued"
        /\ pc[t] = "L63" /\ tasks[t].status = "running"
        /\ pc[w] = "queued"
        /\ Cardinality(busy) = max_workers

(* C22: a submit call that fails because of its input (config_data or     *)
(* metadata that json.dumps cannot encode) always fails, and a submit call *)
(* that failed, for this or any other reason, has left no row for the id   *)
(* it drew and no _runner in the pool: the job is never taken nor called,  *)
(* in any later state.                                                     *)
C22_FailedSubmitLeavesNothing ==
    \A t \in TaskIds :
        /\ (record[t] # None /\ create_task_payload(record[t]) = TypeError)
              => callerPc[t] = "raised"
        /\ callerPc[t] = "raised" =>
              /\ ~created(t) /\ TaskManager_get(t) = None
              /\ pc[t] = "none" /\ outcome[t] = NotCalled /\ calls[t] = <<>>
              /\ \A i \in 1..Len(work_queue) : work_queue[i] # t

(* a submit call failed on its metadata, the one after it was accepted and *)
(* its job has run                                                         *)
C22_Witness ==
    \E t, u \in TaskIds :
        /\ t < u
        /\ callerPc[t] = "raised" /\ json_dumps(record[t].metadata) = TypeError
        /\ json_dumps(record[t].config_payload) # TypeError
        /\ callerPc[u] = "returned" /\ pc[u] = "done" /\ created(u)
        /\ outcome[u].kind = "returned"

(* C23: any two submit calls that returned, whatever their input and       *)
(* whatever the first task was doing when the second call was made, have   *)
(* returned records with two ids, each id has a row of its own, and each   *)
(* call has handed a _runner of its own to the pool: a job that was called *)
(* is the job of a _runner that a worker thread took.                      *)
C23_EverySubmitCreatesItsOwnTask ==
    \A t, u \in TaskIds :
        (t < u /\ callerPc[t] = "returned" /\ callerPc[u] = "returned") =>
            /\ record[t].id # record[u].id
            /\ created(record[t].id) /\ created(record[u].id)
            /\ pc[t] # "none" /\ pc[u] # "none"
            /\ Cardinality({w \in {t, u} : pc[w] = "queued"}) =
                  Cardinality({i \in 1..Len(work_queue) : work_queue[i] \in {t, u}})

(* two submit calls with the same config_data, metadata and completion,    *)
(* the second made while the job of the first was queued or running: the   *)
(* job of the second has returned and that of the first is still running   *)
C23_Witness ==
    \E t, u \in TaskIds :
        /\ t < u
        /\ callerPc[t] = "returned" /\ callerPc[u] = "returned"
        /\ record[t].config_payload = record[u].config_payload
        /\ record[t].metadata = record[u].metadata
        /\ completion[t] = completion[u]
        /\ pc[t] = "L63" /\ stored(t).status = "running"
        /\ pc[u] = "done" /\ outcome[u].kind = "returned"
        /\ stored(u).status = "finished"

(* C24: update_status(id, s) changes the status of record id to s and      *)
(* nothing else: get(id) returns the same id, created_at, input, result,   *)
(* error and metadata as before the call, and the row of every other id is *)
(* as it was.                                                              *)
C24_UpdateStatusChangesStatusOnly ==
    [][reply'.call = "update_status" =>
          LET task_id == reply'.args[1]
              status == reply'.args[2]
          IN  /\ \A u \in TaskIds \ {task_id} : tasks'[u] = tasks[u]
              /\ created(task_id) =>
                    get(tasks', task_id) = [stored(task_id) EXCEPT !.status = status]
              /\ ~created(task_id) => get(tasks', task_id) = None]_vars

(* update_status called on a finished record, with a failed record beside: *)
(* the record is running and has its result                                *)
C24_Witness ==
    /\ reply.call = "update_status" /\ reply.rows = 1
    /\ LET r == stored(reply.args[1])
       IN  /\ r.status = "running"
           /\ r.result = Dict({Item(PyStr("report"), PyStr("Report from worker"))})
           /\ r.error = None
    /\ \E u \in TaskIds \ {reply.args[1]} : created(u) /\ stored(u).status = "failed"

(* the four fields of a record that are written once *)
identity_of(r) == <<r.id, r.created_at, r.config_payload, r.metadata>>

(* C25: a record's id, created_at, input and metadata are those create     *)
(* wrote, in every later state: a successful create_task makes get return  *)
(* the four values it was given, and no call of any repository method on   *)
(* any id, in any order, changes what get returns for them afterwards.     *)
C25_IdentityFieldsNeverChange ==
    [][/\ (reply'.call = "create_task" /\ reply'.raised = NoExc) =>
             LET r == reply'.args[1]
             IN  identity_of(get(tasks', r.id)) = identity_of(r)
       /\ \A t \in TaskIds :
             created(t) =>
                 /\ get(tasks', t) # None
                 /\ identity_of(get(tasks', t)) = identity_of(stored(t))]_vars

(* a record created with metadata that was written failed and then running *)
(* again, read with the four values create_task was given                  *)
C25_Witness ==
    /\ reply.call = "get" /\ reply.rows = 1
    /\ LET r == reply.returned
       IN  /\ r.status = "running" /\ r.error = PyStr("boom") /\ r.result = None
           /\ r.created_at = utcnow(r.id)
           /\ r.config_payload = Dict({Item(PyStr("foo"), PyStr("baz"))})
           /\ r.metadata = Dict({Item(PyStr("source"), PyStr("telegram")),
                                 Item(PyStr("chat_id"), PyInt(7))})

(* C26: prepare_offers removes no offer for having no price: an offer      *)
(* without price that would be in the output if it had a price within the  *)
(* budget is in the output with price None, with or without a budget; and  *)
(* summarise_offers counts the offers that have a price.                   *)
C26_OffersWithoutPriceAreKept ==
    /\ reply.call = "prepare_offers" =>
          LET offers == reply.args[1]
              config == reply.args[2]
          IN  \A i \in 1..Len(offers) :
                  LET priced == [offers EXCEPT ![i].price = PyFloat(0)]
                      first == \A j \in 1..(i - 1) : offers[j].provider # offers[i].provider
                      kept(out, price) ==
                          \E k \in 1..Len(out) :
                              /\ out[k].provider = offers[i].provider
                              /\ out[k].price = price
                  IN  (offers[i].price = None /\ first
                         /\ kept(prepare_offers(priced, config), PyFloat(0)))
                          => kept(reply.returned, None)
    /\ reply.call = "summarise_offers" =>
          reply.returned.count =
              Cardinality({i \in 1..Len(reply.args[1]) :
                              reply.args[1][i].price \notin {None, NaN}})

(* C27: a record is failed only if its job raised: the record of a task    *)
(* whose run_fn returned is never failed, whatever to_dict, json.dumps,    *)
(* update_result, get or the completion callback do afterwards.            *)
C27_FailedOnlyIfJobRaised ==
    \A t \in TaskIds :
        (created(t) /\ stored(t).status = "failed") => outcome[t].kind = "raised"

(* C28: when update_status(id, "running") fails with a store fault, the    *)
(* _runner ends there: run_fn is never called, the completion callback is  *)
(* never called, nothing is written, and the record is the queued one in   *)
(* every later state.  A _runner gets past its first write without calling *)
(* run_fn in no other way.                                                 *)
C28_FailedFirstWriteLeavesQueued ==
    \A t \in TaskIds :
        /\ escaped[t] = StoreFault("_update_status") =>
              /\ pc[t] = "done" /\ outcome[t] = NotCalled /\ calls[t] = <<>>
              /\ state_of(stored(t)) = <<"queued", None, None>>
        /\ (pc[t] \in {"L64", "L65", "L71", "L72", "done"} /\ outcome[t] = NotCalled)
              => escaped[t] = StoreFault("_update_status")

(* the first write of a task with a completion callback has failed, and    *)
(* the task submitted after it has run to its end since                    *)
C28_Witness ==
    \E t, u \in TaskIds :
        /\ t < u
        /\ escaped[t] = StoreFault("_update_status") /\ completion[t]
        /\ stored(t).status = "queued" /\ calls[t] = <<>>
        /\ pc[u] = "done" /\ stored(u).status = "finished"

(* how far the _runner of a task has come: before, at and after its call   *)
(* of run_fn                                                               *)
before_run_fn == {"none", "queued", "L61"}
after_run_fn == {"L64", "L65", "L71", "L72", "done"}

(* C29: run_fn of a task is called at most once: the call is made by a     *)
(* _runner standing at line 63 that has not called it yet, a _runner that  *)
(* has made the call never comes back to line 63 or before it (no retry    *)
(* after a job fault, a store fault or a callback fault), and the work item *)
(* of a task is in the queue at most once and only until a worker thread   *)
(* takes it (no second worker).                                            *)
C29_JobCalledAtMostOnce ==
    [][\A t \in TaskIds :
          /\ outcome'[t] # outcome[t] =>
                (outcome[t] = NotCalled /\ pc[t] = "L63" /\ pc'[t] \in after_run_fn)
          /\ pc[t] \in after_run_fn =>
                (pc'[t] \in after_run_fn /\ outcome'[t] = outcome[t])
          /\ pc[t] = "L63" => pc'[t] \notin before_run_fn
          /\ pc[t] = "done" => pc'[t] = "done"
          /\ Cardinality({i \in 1..Len(work_queue') : work_queue'[i] = t}) =
                IF pc'[t] = "queued" THEN 1 ELSE 0]_vars

(* one job raised and its callback raised as well, the other returned and  *)
(* update_result failed with a store fault: both _runners have ended       *)
C29_Witness ==
    \E t, u \in TaskIds :
        /\ pc[t] = "done" /\ outcome[t] = Raised("boom")
        /\ escaped[t] = Exc("Exception", "notify failed", "completion")
        /\ pc[u] = "done" /\ outcome[u].kind = "returned"
        /\ stored(u).error = PyStr(StoreFault("_update_result").msg)

(* the _runner executions under way *)
at_work == {t \in DOMAIN pc : pc[t] \in ({"L61", "L63"} \cup after_run_fn) \ {"done"}}

(* what the steps of the _runner of a task whose job raises have left in   *)
(* its record                                                              *)
own_state(t) ==
    IF pc[t] \in before_run_fn THEN <<"queued", None, None>>
    ELSE IF pc[t] \in {"L63", "L71"} THEN <<"running", None, None>>
    ELSE IF pc[t] = "done" /\ escaped[t] = StoreFault("_update_status")
         THEN <<"queued", None, None>>
    ELSE IF pc[t] = "done" /\ escaped[t] = StoreFault("_update_error")
         THEN <<"running", None, None>>
    ELSE <<"failed", None, outcome[t].value>>

(* C30: a fault of a task's job, of one of its store calls or of its        *)
(* completion callback stays with the task: every record is what the steps *)
(* of its own _runner have made of it, whatever faults the other tasks     *)
(* met, and a _runner that has ended, with or without an exception, holds  *)
(* no worker thread: whenever a work item waits and fewer than max_workers *)
(* executions are under way, a worker thread can take it.                  *)
C30_FaultsAreContained ==
    /\ \A t \in PoolTaskIds : created(t) => state_of(stored(t)) = own_state(t)
    /\ (work_queue # <<>> /\ Cardinality(at_work) < max_workers)
          => ENABLED worker_take(Head(work_queue))
    /\ Cardinality(at_work) <= max_workers

(* max_workers _runners have ended with a fault, a callback fault, a fault *)
(* of update_status and a fault of update_error among them, and the task    *)
(* that waited for them is being executed                                  *)
C30_Witness ==
    \E t, u, w \in PoolTaskIds :
        /\ Cardinality({x \in PoolTaskIds : pc[x] = "done" /\ escaped[x] # NoExc})
              = max_workers
        /\ escaped[t] = Exc("Exception", "notify failed", "completion")
        /\ escaped[u] = StoreFault("_update_status")
        /\ escaped[w] = StoreFault("_update_error")
        /\ pc[NumPoolTasks] = "L63" /\ stored(NumPoolTasks).status = "running"

=============================================================================
